---- MODULE Spec2Model ----
(***************************************************************************)
(* State-machine model of the Real Estate PDF Analyzer frontend:           *)
(*   - the session record kept in localStorage,                            *)
(*   - the Home, Dashboard and Analysis Detail pages (React state, mount   *)
(*     effects, click handlers, fetch continuations),                      *)
(*   - the extracted-data block of the Analysis Detail page.               *)
(* The Analysis Store is an external HTTP service: the status of every     *)
(* response is a nondeterministic choice.                                  *)
(***************************************************************************)
EXTENDS Bags, Integers, Sequences, FiniteSets, TLC

\* ------------------------------------------------------------------ bounds
MaxId == 2          \* analysis ids are 0..MaxId
MaxList == 2        \* longest list the store returns
MaxInFlight == 2    \* no request is issued while this many are pending
MaxKeys == 3        \* largest extracted_data mapping of SpecClassify
MaxPreview == 5     \* largest extracted_data mapping of SpecPreview
MaxExp == 4         \* file sizes of SpecFormat are below 1024^(MaxExp + 1)

Ids == 0..MaxId

\* ------------------------------------------------------------ JS values
\* localStorage.getItem returns null for an absent entry
Null == "null"
Token == "tok"
UserJson == "usr"

\* extracted_data values are strings or numbers (Record<string, any>)
Str(s) == [t |-> "string", s |-> s, n |-> 0]
Num(n) == [t |-> "number", s |-> "", n |-> n]
Values == {Str(""), Str("Office"), Num(0), Num(3)}

\* JS truthiness of a string or number
Truthy(v) == IF v.t = "number" THEN v.n # 0 ELSE v.s # ""

DigitStr == <<"0", "1", "2", "3", "4", "5", "6", "7", "8", "9">>

\* String(value)
String(v) == IF v.t = "number" THEN DigitStr[v.n + 1] ELSE v.s

\* An extracted_data object is the sequence of its entries in
\* Object.entries order (insertion order; keys are not integer-like).
Keys == {"Price", "Sq Ft", "Property Type", "Bedrooms", "Bathrooms",
         "Address", "MLS#", "Built", "Color"}

Entry(k, v) == [key |-> k, value |-> v]

KeysOf(m) == {m[i].key : i \in 1..Len(m)}

\* truthiness of extracted_data[key]; an absent key reads undefined
Has(m, k) == \E i \in 1..Len(m) : m[i].key = k /\ Truthy(m[i].value)

Range(s) == {s[i] : i \in 1..Len(s)}

\* ------------------------------------------- Analysis Detail: data block
\* mutant: the length guard dropped
BlockGuard_Always(m) == TRUE

\* line 192: Object.keys(analysis.extracted_data).length > 0
BlockGuard(m) == Len(m) > 0

\* mutant: || and && grouped the other way round
\* mutant: the Bedrooms test is missing
isCommercial_SqFtOnly(m) == Has(m, "Property Type") \/ Has(m, "Sq Ft")

\* mutant: the negation applied to both alternatives
isCommercial_Grouping(m) ==
    (Has(m, "Property Type") \/ Has(m, "Sq Ft")) /\ ~Has(m, "Bedrooms")

isCommercial(m) ==
    Has(m, "Property Type") \/ (Has(m, "Sq Ft") /\ ~Has(m, "Bedrooms"))

\* mutant: the commercial order is never used
displayOrder_Residential(m) == <<"Price", "Sq Ft", "Bedrooms", "Bathrooms">>

displayOrder(m) ==
    IF isCommercial(m) THEN <<"Price", "Sq Ft", "Property Type">>
    ELSE <<"Price", "Sq Ft", "Bedrooms", "Bathrooms">>

propertyDetails(m) ==
    IF isCommercial(m) THEN <<"Address", "MLS#", "Built">>
    ELSE <<"Address", "MLS#", "Built">>

primaryKeys(m) == Range(displayOrder(m)) \cup Range(propertyDetails(m))

\* mutant: propertyDetails left out of primaryKeys
additionalEntries_DisplayOnly(m) ==
    LET pk == Range(displayOrder(m))
    IN SelectSeq(m, LAMBDA e : e.key \notin pk)

\* mutant: a listed key without a value falls through to the additional fields
additionalEntries_Valued(m) ==
    LET pk == primaryKeys(m)
    IN SelectSeq(m, LAMBDA e : e.key \notin pk \/ ~Truthy(e.value))

\* Object.entries(extracted_data).filter(([key]) => !primaryKeys.has(key))
additionalEntries(m) ==
    LET pk == primaryKeys(m)
    IN SelectSeq(m, LAMBDA e : e.key \notin pk)

\* mutant: the truthiness test dropped, every listed key rendered
ShownKeys_NoSkip(m, list) == list

\* list.map(key => extracted_data[key] ? <div key/> : null): the keys of the
\* elements that are rendered, in list order
RECURSIVE ShownKeys(_, _)
ShownKeys(m, list) ==
    IF list = <<>> THEN <<>>
    ELSE (IF Has(m, Head(list)) THEN <<Head(list)>> ELSE <<>>)
         \o ShownKeys(m, Tail(list))

\* propertyDetails.some(key => extracted_data[key])
DetailsGuard(m) ==
    LET pd == propertyDetails(m)
    IN \E i \in 1..Len(pd) : Has(m, pd[i])

\* additionalEntries.map(([key, value]) => key, String(value))
AdditionalCards(entries) ==
    [i \in 1..Len(entries) |-> [key |-> entries[i].key, text |-> String(entries[i].value)]]

\* What the extracted-data block shows for the mapping m
Block(m) ==
    IF ~BlockGuard(m)
    THEN [rendered |-> FALSE, primary |-> <<>>, detailsSection |-> FALSE,
          details |-> <<>>, additionalSection |-> FALSE, additional |-> <<>>]
    ELSE LET entries == additionalEntries(m)
             some == DetailsGuard(m)
         IN [rendered |-> TRUE,
             primary |-> ShownKeys(m, displayOrder(m)),
             detailsSection |-> some,
             details |-> IF some THEN ShownKeys(m, propertyDetails(m)) ELSE <<>>,
             additionalSection |-> Len(entries) > 0,
             additional |-> IF Len(entries) > 0 THEN AdditionalCards(entries) ELSE <<>>]

\* ------------------------------------------------------ formatFileSize
\* A byte count is the sequence of its base-1024 digits, most significant
\* first and without leading zeros; 0 is <<>>. Counts below 2^53 are exact
\* as JS numbers, and so are their quotients by a power of 1024.
\* const k = 1024
K == 1024

sizes == <<"Bytes", "KB", "MB", "GB">>

Zeros(n) == [i \in 1..n |-> 0]

Rev(seq) == [i \in 1..Len(seq) |-> seq[Len(seq) + 1 - i]]

\* digit-wise sum, least significant digit first
RECURSIVE AddLE(_, _, _)
AddLE(a, b, carry) ==
    IF a = <<>> /\ b = <<>>
    THEN (IF carry = 0 THEN <<>> ELSE <<carry>>)
    ELSE LET x == (IF a = <<>> THEN 0 ELSE Head(a))
                  + (IF b = <<>> THEN 0 ELSE Head(b)) + carry
         IN <<x % K>> \o AddLE(IF a = <<>> THEN <<>> ELSE Tail(a),
                               IF b = <<>> THEN <<>> ELSE Tail(b), x \div K)

\* total + analysis.file_size
Add(a, b) == Rev(AddLE(Rev(a), Rev(b), 0))

\* analyses.reduce((total, analysis) => total + analysis.file_size, 0)
RECURSIVE TotalBytes(_)
TotalBytes(list) ==
    IF list = <<>> THEN <<>>
    ELSE Add(TotalBytes(SubSeq(list, 1, Len(list) - 1)), list[Len(list)].file_size)

\* Math.floor(Math.log(bytes) / Math.log(k)) for bytes > 0
floorLog(bytes) == Len(bytes) - 1

\* floor(c * f) for the fraction f = 0.d1 d2 ... in base 1024
RECURSIVE Scaled(_, _)
Scaled(digits, c) ==
    IF digits = <<>> THEN 0
    ELSE (c * Head(digits) + Scaled(Tail(digits), c)) \div K

\* (bytes / Math.pow(k, i)).toFixed(2) in hundredths; a tie rounds up
toFixed2(bytes) == bytes[1] * 100 + (Scaled(Tail(bytes), 200) + 1) \div 2

\* mutant: the parseFloat around toFixed is missing
Decimals_Fixed(t) == <<(t % 100) \div 10, t % 10>>

\* parseFloat of a two-decimal string: the decimals without trailing zeros
Decimals(t) ==
    IF t % 100 = 0 THEN <<>>
    ELSE IF t % 10 = 0 THEN <<(t % 100) \div 10>>
    ELSE <<(t % 100) \div 10, t % 10>>

\* formatFileSize: the number before the blank as whole part and decimals,
\* the unit index and sizes[i] (undefined outside the table)
formatFileSize(bytes) ==
    IF bytes = <<>>
    THEN [whole |-> 0, decimals |-> <<>>, i |-> 0, unit |-> "Bytes"]
    ELSE LET i == floorLog(bytes)
             t == toFixed2(bytes)
         IN [whole |-> t \div 100, decimals |-> Decimals(t), i |-> i,
             unit |-> IF i + 1 \in DOMAIN sizes THEN sizes[i + 1] ELSE "undefined"]

\* ------------------------------------------------------- Analysis Store
Ok == 200
Unauthorized == 401
NotFound == 404
ServerError == 500
\* fetch() rejected: no response at all
NetworkError == 0
Statuses == {Ok, Unauthorized, NotFound, ServerError, NetworkError}

\* response.ok
IsOk(status) == status >= 200 /\ status <= 299

\* the two examples of the specification plus an empty and a sparse mapping
SampleData(i) ==
    CASE i = 0 -> <<>>
      [] i = 1 -> <<Entry("Property Type", Str("Office")), Entry("Sq Ft", Str("10000"))>>
      [] i = 2 -> <<Entry("Price", Str("$500,000")), Entry("Sq Ft", Str("1200")),
                    Entry("Bedrooms", Str("3")), Entry("Bathrooms", Str("2")),
                    Entry("Color", Str("Blue"))>>
      [] OTHER -> <<Entry("Price", Str("")), Entry("Built", Num(0))>>

\* file_size of the stored analyses: 0, 1536 and 5 MB
SampleSize(i) ==
    CASE i = 0 -> <<>>
      [] i = 1 -> <<1, 512>>
      [] OTHER -> <<5, 0, 0>>

\* interface Analysis
Analysis(id, data, size) == [id |-> id, extracted_data |-> data, file_size |-> size]

StoreRecord(i) == Analysis(i, SampleData(i), SampleSize(i))

DistinctIdSeqs ==
    {s \in UNION {[1..n -> Ids] : n \in 0..MaxList} :
        \A i, j \in 1..Len(s) : i # j => s[i] # s[j]}

\* bodies of GET /analyses
StoreLists == {[i \in 1..Len(s) |-> StoreRecord(s[i])] : s \in DistinctIdSeqs}

\* response.json() is read on success only
ListBodies(status) == IF IsOk(status) THEN StoreLists ELSE {<<>>}

\* ------------------------------------------------------------------ state
VARIABLES
    storage,   \* localStorage: [session_token, user]
    route,     \* page the router shows
    home,      \* Home page state
    dash,      \* DashboardPage state
    detail,    \* AnalysisDetailPage state and its params.id
    upload,    \* Upload page state
    net,       \* fetch calls in flight, a bag: they complete in any order
    okDeletes, \* ids whose DELETE call has returned success to the mounted Dashboard
    ev         \* the handler that ran last

vars == <<storage, route, home, dash, detail, upload, net, okDeletes, ev>>

Pages == {"home", "login", "dashboard", "detail", "upload"}

Cleared == [session_token |-> Null, user |-> Null]
LoggedIn == [session_token |-> Token, user |-> UserJson]

\* localStorage.removeItem(key): no effect on an absent entry
removeItem(st, key) == [st EXCEPT ![key] = Null]

\* mutant: removing an absent entry brings the session back
clear_Toggle(st) == IF st = Cleared THEN LoggedIn ELSE Cleared

\* removeItem('session_token'); removeItem('user')
clear(st) == removeItem(removeItem(st, "session_token"), "user")

\* useState initial values
HomeInit == [user |-> Null, loading |-> TRUE]
DashInit == [user |-> Null, analyses |-> <<>>, loading |-> TRUE, error |-> "",
             deleteConfirm |-> <<>>]
DetailInit == [id |-> 0, analysis |-> <<>>, loading |-> TRUE, error |-> ""]
\* input: the file the <input type="file"> element holds
UploadInit == [input |-> <<>>, file |-> <<>>, result |-> <<>>, loading |-> FALSE,
               error |-> Null]

\* clears: how often a 401 handler has cleared the session so far (2: twice
\* or more)
Event(op, page, id, status) ==
    [op |-> op, page |-> page, id |-> id, status |-> status, clears |-> ev.clears]

\* a pending fetch and what its continuation closes over; live: the component
\* that issued it is still mounted, so its setState calls take effect
Request(kind, page, id, auth, closure) ==
    [kind |-> kind, page |-> page, live |-> TRUE, id |-> id, auth |-> auth,
     closure |-> closure, body |-> <<>>]

Pending == BagToSet(net)

\* the pending calls once call r has been answered
Others(r) == net (-) SetToBag({r})

\* one more call is pending
Sent(calls, r) == calls (+) SetToBag({r})

\* the mounted page is replaced: the continuations of its calls still run,
\* but their setState calls are dropped and all they can still do is
\* navigate or clear the session, so the id and the list they closed over
\* and the body they sent reach no state any more
Stale(r) == [r EXCEPT !.live = FALSE, !.id = 0, !.closure = <<>>, !.body = <<>>]

Unmounted(calls) == BagOfAll(Stale, calls)

CanSend == BagCardinality(net) < MaxInFlight

\* ------------------------------------------------------- mount effects
\* Home useEffect: read user, setLoading(false)
EnterHome(st, pending) ==
    /\ route' = "home"
    /\ home' = [user |-> st.user, loading |-> FALSE]
    /\ dash' = DashInit
    /\ detail' = DetailInit
    /\ upload' = UploadInit
    /\ net' = Unmounted(pending)
    /\ okDeletes' = {}

DashboardGate(st) == st.session_token # Null /\ st.user # Null

\* DashboardPage useEffect followed by the request of fetchAnalyses
EnterDashboard(st, pending) ==
    /\ home' = HomeInit
    /\ upload' = UploadInit
    /\ okDeletes' = {}
    /\ detail' = DetailInit
    /\ IF DashboardGate(st)
       THEN /\ route' = "dashboard"
            /\ dash' = [DashInit EXCEPT !.user = st.user]
            /\ net' = Sent(Unmounted(pending), Request("list", "dashboard", 0, st.session_token, <<>>))
       ELSE /\ route' = "login"
            /\ dash' = DashInit
            /\ net' = Unmounted(pending)

\* mutant: the page does not look at the session
DetailGate_Open(st) == TRUE

DetailGate(st) == st.session_token # Null

\* AnalysisDetailPage useEffect followed by the request of fetchAnalysis
EnterDetail(st, pending, i) ==
    /\ home' = HomeInit
    /\ upload' = UploadInit
    /\ okDeletes' = {}
    /\ dash' = DashInit
    /\ detail' = [DetailInit EXCEPT !.id = i]
    /\ IF DetailGate(st)
       THEN /\ route' = "detail"
            /\ net' = Sent(Unmounted(pending), Request("get", "detail", i, st.session_token, <<>>))
       ELSE /\ route' = "login"
            /\ net' = Unmounted(pending)

\* the Upload page has no mount effect; the login view keeps no state here
EnterOther(p, pending) ==
    /\ route' = p
    /\ okDeletes' = {}
    /\ home' = HomeInit
    /\ dash' = DashInit
    /\ detail' = DetailInit
    /\ upload' = UploadInit
    /\ net' = Unmounted(pending)

Enter(p, i, st, pending) ==
    CASE p = "home" -> EnterHome(st, pending)
      [] p = "dashboard" -> EnterDashboard(st, pending)
      [] p = "detail" -> EnterDetail(st, pending, i)
      [] OTHER -> EnterOther(p, pending)

\* the browser loads page p (address bar, link, reload)
OpenPage(p, i) ==
    /\ CanSend
    /\ p # "detail" => i = 0
    /\ Enter(p, i, storage, net)
    /\ ev' = Event("load", p, i, 0)
    /\ UNCHANGED storage

\* router.push('/login') from the continuation of call r
ToLogin(r) ==
    /\ route' = "login"
    /\ net' = Unmounted(Others(r))

\* --------------------------------------------------------------- Home
\* mutant: the user entry is left behind
HomeLogout_TokenOnly ==
    /\ route = "home"
    /\ home.user # Null
    /\ storage' = removeItem(storage, "session_token")
    /\ home' = [home EXCEPT !.user = Null]
    /\ ev' = Event("logout", "home", 0, 0)
    /\ UNCHANGED <<route, dash, detail, upload, net, okDeletes>>

\* Home handleLogout: stays on the page
HomeLogout ==
    /\ route = "home"
    /\ home.user # Null
    /\ storage' = clear(storage)
    /\ home' = [home EXCEPT !.user = Null]
    /\ ev' = Event("logout", "home", 0, 0)
    /\ UNCHANGED <<route, dash, detail, upload, net, okDeletes>>

\* Home header button: router.push('/dashboard')
HomeDashboard ==
    /\ route = "home"
    /\ home.user # Null
    /\ CanSend
    /\ EnterDashboard(storage, net)
    /\ ev' = Event("load", "dashboard", 0, 0)
    /\ UNCHANGED storage

\* ---------------------------------------------------------- Dashboard
\* the page body (cards, header) is rendered once loading is false
DashShown == route = "dashboard" /\ ~dash.loading

\* {deleteConfirm && <modal/>}
ModalShown == DashShown /\ dash.deleteConfirm # <<>> /\ dash.deleteConfirm[1] # 0

\* the modal is a `fixed inset-0` overlay: while it is shown the header and
\* the cards under it take no clicks
DashClickable == DashShown /\ ~ModalShown

IdsOf(list) == {list[i].id : i \in 1..Len(list)}

\* analyses.filter(analysis => analysis.id !== analysisId)
FilterOut(list, analysisId) == SelectSeq(list, LAMBDA a : a.id # analysisId)

\* continuation of fetchAnalyses after the await, for the pending call r
FetchAnalysesResponse(r, status, list) ==
    /\ r \in Pending
    /\ r.kind = "list"
    /\ storage' = IF status = Unauthorized THEN clear(storage) ELSE storage
    /\ IF status = Unauthorized
       THEN ToLogin(r)
       ELSE /\ net' = Others(r)
            /\ UNCHANGED route
    /\ dash' = IF ~r.live THEN dash
               ELSE IF status = NetworkError
                    THEN [dash EXCEPT !.error = "Failed to fetch analyses", !.loading = FALSE]
               ELSE IF IsOk(status)
                    THEN [dash EXCEPT !.analyses = list, !.loading = FALSE]
               ELSE [dash EXCEPT !.loading = FALSE]
    /\ ev' = [Event("listResponse", "dashboard", 0, status) EXCEPT
                 !.clears = IF status # Unauthorized THEN @
                            ELSE IF @ = 0 THEN 1 ELSE 2]
    /\ UNCHANGED <<home, detail, upload, okDeletes>>

\* Dashboard handleLogout
DashLogout ==
    /\ DashClickable
    /\ storage' = clear(storage)
    /\ EnterHome(clear(storage), net)
    /\ ev' = Event("logout", "dashboard", 0, 0)

\* card button View: router.push(`/analysis/${analysis.id}`)
DashView(i) ==
    /\ DashClickable
    /\ i \in IdsOf(dash.analyses)
    /\ CanSend
    /\ EnterDetail(storage, net, i)
    /\ ev' = Event("load", "detail", i, 0)
    /\ UNCHANGED storage

\* card button Delete: setDeleteConfirm(analysis.id)
ClickDelete(i) ==
    /\ DashClickable
    /\ i \in IdsOf(dash.analyses)
    /\ dash' = [dash EXCEPT !.deleteConfirm = <<i>>]
    /\ ev' = Event("clickDelete", "dashboard", i, 0)
    /\ UNCHANGED <<storage, route, home, detail, upload, net, okDeletes>>

\* mutant: closing the modal also resets the error
CancelDelete_ClearsError ==
    /\ ModalShown
    /\ dash' = [dash EXCEPT !.deleteConfirm = <<>>, !.error = ""]
    /\ ev' = Event("cancelDelete", "dashboard", dash.deleteConfirm[1], 0)
    /\ UNCHANGED <<storage, route, home, detail, upload, net, okDeletes>>

\* modal button Cancel: setDeleteConfirm(null)
CancelDelete ==
    /\ ModalShown
    /\ dash' = [dash EXCEPT !.deleteConfirm = <<>>]
    /\ ev' = Event("cancelDelete", "dashboard", dash.deleteConfirm[1], 0)
    /\ UNCHANGED <<storage, route, home, detail, upload, net, okDeletes>>

\* modal button Delete: handleDeleteAnalysis(deleteConfirm) up to the await;
\* the handler closes over the analyses of the render it was created in
ConfirmDelete ==
    /\ ModalShown
    /\ CanSend
    /\ net' = Sent(net, Request("delete", "dashboard", dash.deleteConfirm[1],
                                  storage.session_token, dash.analyses))
    /\ ev' = Event("confirmDelete", "dashboard", dash.deleteConfirm[1], 0)
    /\ UNCHANGED <<storage, route, home, dash, detail, upload, okDeletes>>

\* mutant: the list is updated before the status is looked at
DeleteResponse_Optimistic(r, status) ==
    /\ r \in Pending
    /\ r.kind = "delete"
    /\ r.page = "dashboard"
    /\ IF status = Unauthorized
       THEN ToLogin(r)
       ELSE /\ net' = Others(r)
            /\ UNCHANGED route
    /\ dash' = IF ~r.live THEN dash
               ELSE IF IsOk(status)
                    THEN [dash EXCEPT !.analyses = FilterOut(r.closure, r.id),
                                      !.deleteConfirm = <<>>]
               ELSE IF status = Unauthorized
                    THEN [dash EXCEPT !.analyses = FilterOut(r.closure, r.id)]
               ELSE [dash EXCEPT !.analyses = FilterOut(r.closure, r.id),
                                 !.error = "Failed to delete analysis"]
    /\ ev' = Event("deleteResponse", "dashboard", r.id, status)
    /\ okDeletes' = IF IsOk(status) /\ r.live THEN okDeletes \cup {r.id} ELSE okDeletes
    /\ UNCHANGED <<storage, home, detail, upload>>

\* continuation of the Dashboard handleDeleteAnalysis after the await, for
\* the pending call r
DeleteResponse(r, status) ==
    /\ r \in Pending
    /\ r.kind = "delete"
    /\ r.page = "dashboard"
    /\ IF status = Unauthorized
       THEN ToLogin(r)
       ELSE /\ net' = Others(r)
            /\ UNCHANGED route
    /\ dash' = IF ~r.live THEN dash
               ELSE IF status = NetworkError
                    THEN [dash EXCEPT !.error = "Failed to delete analysis"]
               ELSE IF IsOk(status)
                    THEN [dash EXCEPT !.analyses = FilterOut(r.closure, r.id),
                                      !.deleteConfirm = <<>>]
               ELSE IF status = Unauthorized THEN dash
               ELSE [dash EXCEPT !.error = "Failed to delete analysis"]
    /\ ev' = Event("deleteResponse", "dashboard", r.id, status)
    /\ okDeletes' = IF IsOk(status) /\ r.live THEN okDeletes \cup {r.id} ELSE okDeletes
    /\ UNCHANGED <<storage, home, detail, upload>>

\* ---------------------------------------------------- Dashboard cards
\* mutant: the more-indicator is shown from four keys on
CardPreview_FromFour(m) ==
    [rendered |-> Len(m) > 0,
     cards |-> [i \in 1..(IF Len(m) < 4 THEN Len(m) ELSE 4) |->
                  [key |-> m[i].key,
                   text |-> IF String(m[i].value) = "" THEN "N/A"
                            ELSE String(m[i].value)]],
     more |-> IF Len(m) >= 4 THEN <<Len(m) - 4>> ELSE <<>>]

\* Extracted Data Preview of one card: Object.entries(...).slice(0, 4), each
\* as key and String(value) || 'N/A', then the +N card
CardPreview(m) ==
    [rendered |-> Len(m) > 0,
     cards |-> [i \in 1..(IF Len(m) < 4 THEN Len(m) ELSE 4) |->
                  [key |-> m[i].key,
                   text |-> IF String(m[i].value) = "" THEN "N/A"
                            ELSE String(m[i].value)]],
     more |-> IF Len(m) > 4 THEN <<Len(m) - 4>> ELSE <<>>]

\* analyses.map(analysis => card): the previews the Dashboard shows
Previews ==
    IF DashShown
    THEN [i \in 1..Len(dash.analyses) |-> CardPreview(dash.analyses[i].extracted_data)]
    ELSE <<>>

\* Total Size stat and the size line of each card
TotalSize == formatFileSize(TotalBytes(dash.analyses))

CardSizes == [i \in 1..Len(dash.analyses) |-> formatFileSize(dash.analyses[i].file_size)]

\* ----------------------------------------------------- Analysis Detail
\* mutant: the error is not part of the second guard
DetailView_RecordOnly ==
    IF detail.loading THEN "loading"
    ELSE IF detail.analysis = <<>> THEN "notFound"
    ELSE "detail"

\* the three returns of AnalysisDetailPage
DetailView ==
    IF detail.loading THEN "loading"
    ELSE IF detail.error # "" \/ detail.analysis = <<>> THEN "notFound"
    ELSE "detail"

DetailShown == route = "detail" /\ DetailView = "detail"

\* mutant: a 404 is handled like a 401
FetchAnalysisResponse_404AsAuth(r, status, data) ==
    /\ r \in Pending
    /\ r.kind = "get"
    /\ IF status \in {Unauthorized, NotFound}
       THEN ToLogin(r)
       ELSE /\ net' = Others(r)
            /\ UNCHANGED route
    /\ detail' = IF ~r.live THEN detail
                 ELSE IF status = NetworkError
                      THEN [detail EXCEPT !.error = "Failed to fetch analysis",
                                          !.loading = FALSE]
                 ELSE IF IsOk(status)
                      THEN [detail EXCEPT !.analysis = <<data>>, !.loading = FALSE]
                 ELSE IF status = NotFound
                      THEN [detail EXCEPT !.error = "Analysis not found", !.loading = FALSE]
                 ELSE [detail EXCEPT !.loading = FALSE]
    /\ ev' = Event("getResponse", "detail", r.id, status)
    /\ UNCHANGED <<storage, home, upload, dash, okDeletes>>

\* continuation of fetchAnalysis after the await, for the pending call r
FetchAnalysisResponse(r, status, data) ==
    /\ r \in Pending
    /\ r.kind = "get"
    /\ IF status = Unauthorized
       THEN ToLogin(r)
       ELSE /\ net' = Others(r)
            /\ UNCHANGED route
    /\ detail' = IF ~r.live THEN detail
                 ELSE IF status = NetworkError
                      THEN [detail EXCEPT !.error = "Failed to fetch analysis",
                                          !.loading = FALSE]
                 ELSE IF IsOk(status)
                      THEN [detail EXCEPT !.analysis = <<data>>, !.loading = FALSE]
                 ELSE IF status = NotFound
                      THEN [detail EXCEPT !.error = "Analysis not found", !.loading = FALSE]
                 ELSE [detail EXCEPT !.loading = FALSE]
    /\ ev' = Event("getResponse", "detail", r.id, status)
    /\ UNCHANGED <<storage, home, upload, dash, okDeletes>>

\* useEffect(..., [router, params.id]) run again: params.id has changed in
\* the mounted page. The component state is kept, the effect has no cleanup
\* and the earlier fetch is not aborted, so its continuation still sets state.
ParamsIdChange(i) ==
    /\ route = "detail"
    /\ i # detail.id
    /\ CanSend
    /\ detail' = [detail EXCEPT !.id = i]
    /\ IF DetailGate(storage)
       THEN /\ net' = Sent(net, Request("get", "detail", i, storage.session_token, <<>>))
            /\ UNCHANGED route
       ELSE /\ route' = "login"
            /\ net' = Unmounted(net)
    /\ ev' = Event("paramsId", "detail", i, 0)
    /\ UNCHANGED <<storage, home, dash, upload, okDeletes>>

\* mutant: the early return after confirm() is missing
DeclineDetailDelete_NoReturn ==
    /\ DetailShown
    /\ CanSend
    /\ net' = Sent(net, Request("delete", "detail", detail.id,
                                  storage.session_token, <<>>))
    /\ ev' = Event("declineDelete", "detail", detail.id, 0)
    /\ UNCHANGED <<storage, route, home, dash, detail, upload, okDeletes>>

\* header button Delete Analysis, confirm() answered with Cancel
DeclineDetailDelete ==
    /\ DetailShown
    /\ ev' = Event("declineDelete", "detail", detail.id, 0)
    /\ UNCHANGED <<storage, route, home, dash, detail, upload, net, okDeletes>>

\* header button Delete Analysis, confirm() answered with OK, up to the await
ConfirmDetailDelete ==
    /\ DetailShown
    /\ CanSend
    /\ net' = Sent(net, Request("delete", "detail", detail.id,
                                  storage.session_token, <<>>))
    /\ ev' = Event("confirmDelete", "detail", detail.id, 0)
    /\ UNCHANGED <<storage, route, home, dash, detail, upload, okDeletes>>

\* mutant: the redirect to the dashboard does not wait for response.ok
DetailDeleteResponse_AlwaysRedirect(r, status) ==
    /\ r \in Pending
    /\ r.kind = "delete"
    /\ r.page = "detail"
    /\ ev' = Event("deleteResponse", "detail", r.id, status)
    /\ UNCHANGED storage
    /\ EnterDashboard(storage, Others(r))

\* continuation of the Analysis Detail handleDeleteAnalysis after the await,
\* for the pending call r
DetailDeleteResponse(r, status) ==
    /\ r \in Pending
    /\ r.kind = "delete"
    /\ r.page = "detail"
    /\ ev' = Event("deleteResponse", "detail", r.id, status)
    /\ UNCHANGED storage
    /\ IF IsOk(status)
       THEN \* router.push('/dashboard'): the Dashboard mounts
            EnterDashboard(storage, Others(r))
       ELSE /\ IF status = Unauthorized
               THEN ToLogin(r)
               ELSE /\ net' = Others(r)
                    /\ UNCHANGED route
            /\ detail' = IF r.live /\ status # Unauthorized
                         THEN [detail EXCEPT !.error = "Failed to delete analysis"]
                         ELSE detail
            /\ UNCHANGED <<home, upload, dash, okDeletes>>

\* buttons Back to Dashboard: router.push('/dashboard')
DetailBack ==
    /\ route = "detail"
    /\ ~detail.loading
    /\ CanSend
    /\ EnterDashboard(storage, net)
    /\ ev' = Event("load", "dashboard", 0, 0)
    /\ UNCHANGED storage

\* -------------------------------------------------------------- Upload
\* what the file input can hand over: e.target.files[0]
Files == {[name |-> "a", type |-> "application/pdf"],
          [name |-> "b", type |-> "application/pdf"],
          [name |-> "c", type |-> "image/png"]}

\* mutant: the button follows the file input instead of the file state
SubmitDisabled_ByInput ==
    \/ upload.input = <<>>
    \/ upload.input[1].type # "application/pdf"
    \/ upload.loading

\* disabled={!file || loading}
SubmitDisabled == upload.file = <<>> \/ upload.loading

\* mutant: the type of the selected file is not looked at
handleFileChange_AnyType(selected) ==
    /\ route = "upload"
    /\ upload' = IF selected # <<>>
                 THEN [upload EXCEPT !.input = selected, !.file = selected, !.error = Null]
                 ELSE [upload EXCEPT !.input = selected,
                                     !.error = "Please select a PDF file"]
    /\ ev' = Event("selectFile", "upload", 0, 0)
    /\ UNCHANGED <<storage, route, home, dash, detail, net, okDeletes>>

\* handleFileChange; selected is <<>> when the picker hands over no file
handleFileChange(selected) ==
    /\ route = "upload"
    /\ upload' = IF selected # <<>> /\ selected[1].type = "application/pdf"
                 THEN [upload EXCEPT !.input = selected, !.file = selected, !.error = Null]
                 ELSE [upload EXCEPT !.input = selected,
                                     !.error = "Please select a PDF file"]
    /\ ev' = Event("selectFile", "upload", 0, 0)
    /\ UNCHANGED <<storage, route, home, dash, detail, net, okDeletes>>

\* mutant: setLoading(true) is missing
analyzePDF_NoLoading ==
    /\ route = "upload"
    /\ ~SubmitDisabled
    /\ upload.file # <<>>
    /\ CanSend
    /\ upload' = [upload EXCEPT !.error = Null]
    /\ net' = Sent(net, [Request("analyze", "upload", 0, Null, <<>>) EXCEPT
                            !.body = upload.file])
    /\ ev' = Event("analyze", "upload", 0, 0)
    /\ UNCHANGED <<storage, route, home, dash, detail, okDeletes>>

\* button Analyze PDF: analyzePDF up to the await
analyzePDF ==
    /\ route = "upload"
    /\ ~SubmitDisabled
    /\ upload.file # <<>>
    /\ CanSend
    /\ upload' = [upload EXCEPT !.loading = TRUE, !.error = Null]
    /\ net' = Sent(net, [Request("analyze", "upload", 0, Null, <<>>) EXCEPT
                            !.body = upload.file])
    /\ ev' = Event("analyze", "upload", 0, 0)
    /\ UNCHANGED <<storage, route, home, dash, detail, okDeletes>>

\* what the Extraction Service answers with status 200
AnalyzeResults == [success : BOOLEAN]

\* mutant: setLoading(false) is not in a finally block
AnalyzeResponse_NoFinally(r, status, data) ==
    /\ r \in Pending
    /\ r.kind = "analyze"
    /\ net' = Others(r)
    /\ upload' = IF ~r.live THEN upload
                 ELSE IF status = NetworkError
                      THEN [upload EXCEPT !.error = "Failed to fetch"]
                 ELSE IF ~IsOk(status)
                      THEN [upload EXCEPT !.error = "Analysis failed"]
                 ELSE [upload EXCEPT !.result = <<data>>, !.loading = FALSE]
    /\ ev' = Event("analyzeResponse", "upload", 0, status)
    /\ UNCHANGED <<storage, route, home, dash, detail, okDeletes>>

\* continuation of analyzePDF after the await, for the pending call r
AnalyzeResponse(r, status, data) ==
    /\ r \in Pending
    /\ r.kind = "analyze"
    /\ net' = Others(r)
    /\ upload' = IF ~r.live THEN upload
                 ELSE IF status = NetworkError
                      THEN [upload EXCEPT !.error = "Failed to fetch", !.loading = FALSE]
                 ELSE IF ~IsOk(status)
                      THEN [upload EXCEPT !.error = "Analysis failed", !.loading = FALSE]
                 ELSE [upload EXCEPT !.result = <<data>>, !.loading = FALSE]
    /\ ev' = Event("analyzeResponse", "upload", 0, status)
    /\ UNCHANGED <<storage, route, home, dash, detail, okDeletes>>

\* ------------------------------------------------------- specifications
InitPage ==
    /\ route = "home"
    /\ home = [user |-> storage.user, loading |-> FALSE]
    /\ dash = DashInit
    /\ detail = DetailInit
    /\ upload = UploadInit
    /\ net = EmptyBag
    /\ okDeletes = {}
    /\ ev = [op |-> "init", page |-> "home", id |-> 0, status |-> 0, clears |-> 0]

\* the login view writes the session record as a whole pair
Init ==
    /\ storage \in {Cleared, LoggedIn}
    /\ InitPage

Next ==
    \/ \E p \in Pages, i \in Ids : OpenPage(p, i)
    \/ HomeLogout
    \/ HomeDashboard
    \/ \E r \in Pending, status \in Statuses :
          \E list \in ListBodies(status) : FetchAnalysesResponse(r, status, list)
    \/ DashLogout
    \/ \E i \in Ids : DashView(i)
    \/ \E i \in Ids : ClickDelete(i)
    \/ CancelDelete
    \/ ConfirmDelete
    \/ \E r \in Pending, status \in Statuses : DeleteResponse(r, status)
    \/ \E r \in Pending, status \in Statuses :
          FetchAnalysisResponse(r, status, StoreRecord(r.id))
    \/ DeclineDetailDelete
    \/ ConfirmDetailDelete
    \/ \E r \in Pending, status \in Statuses : DetailDeleteResponse(r, status)
    \/ DetailBack
    \/ \E selected \in {<<>>} \cup {<<f>> : f \in Files} : handleFileChange(selected)
    \/ analyzePDF
    \/ \E r \in Pending, status \in Statuses, data \in AnalyzeResults :
          AnalyzeResponse(r, status, data)

Spec == Init /\ [][Next]_vars

\* localStorage is ambient browser state written outside these pages: a page
\* load may find any combination of the two entries
InitAmbient ==
    /\ storage \in [session_token : {Null, Token}, user : {Null, UserJson}]
    /\ InitPage

SpecAmbient == InitAmbient /\ [][Next]_vars

\* every extracted_data object of at most MaxKeys entries: distinct keys in
\* some order, each with some value
KeySeqs(n) == {ks \in [1..n -> Keys] : \A i, j \in 1..n : i # j => ks[i] # ks[j]}

MakeMapping(ks, vs) == [i \in 1..Len(ks) |-> Entry(ks[i], vs[i])]

\* the Analysis Detail page right after /analysis/1 was opened with a session
InitClassify ==
    /\ storage = LoggedIn
    /\ route = "detail"
    /\ home = HomeInit
    /\ dash = DashInit
    /\ detail = [DetailInit EXCEPT !.id = 1]
    /\ upload = UploadInit
    /\ net = SetToBag({Request("get", "detail", 1, Token, <<>>)})
    /\ okDeletes = {}
    /\ ev = [op |-> "load", page |-> "detail", id |-> 1, status |-> 0, clears |-> 0]

\* the store answers with any record
ClassifyOk ==
    \E r \in Pending, n \in 0..MaxKeys :
        \E ks \in KeySeqs(n), vs \in [1..n -> Values] :
            FetchAnalysisResponse(r, Ok, Analysis(r.id, MakeMapping(ks, vs), <<>>))

\* or with no record at all
ClassifyFail ==
    \E r \in Pending, status \in Statuses \ {Ok} :
        FetchAnalysisResponse(r, status, StoreRecord(r.id))

NextClassify == ClassifyOk \/ ClassifyFail

SpecClassify == InitClassify /\ [][NextClassify]_vars

\* the Dashboard right after it was opened with a session
InitDashboard ==
    /\ storage = LoggedIn
    /\ route = "dashboard"
    /\ home = HomeInit
    /\ dash = [DashInit EXCEPT !.user = UserJson]
    /\ detail = DetailInit
    /\ upload = UploadInit
    /\ net = SetToBag({Request("list", "dashboard", 0, Token, <<>>)})
    /\ okDeletes = {}
    /\ ev = [op |-> "load", page |-> "dashboard", id |-> 0, status |-> 0, clears |-> 0]

\* the store answers with one analysis holding any mapping of at most
\* MaxPreview entries
PreviewOk ==
    \E r \in Pending, n \in 0..MaxPreview :
        \E ks \in KeySeqs(n), v \in Values :
            FetchAnalysesResponse(r, Ok,
                <<Analysis(1, MakeMapping(ks, [i \in 1..n |-> v]), <<>>)>>)

\* or the list fetch fails
PreviewFail ==
    \E r \in Pending, status \in Statuses \ {Ok} :
        FetchAnalysesResponse(r, status, <<>>)

NextPreview == PreviewOk \/ PreviewFail

SpecPreview == InitDashboard /\ [][NextPreview]_vars

\* Whether a change of the dynamic segment remounts the page or re-renders
\* the mounted one is the router's choice; both are possible here.
InitParams ==
    /\ storage = LoggedIn
    /\ route = "detail"
    /\ home = HomeInit
    /\ dash = DashInit
    /\ \E i \in Ids :
          /\ detail = [DetailInit EXCEPT !.id = i]
          /\ net = SetToBag({Request("get", "detail", i, Token, <<>>)})
          /\ ev = [op |-> "load", page |-> "detail", id |-> i, status |-> 0, clears |-> 0]
    /\ upload = UploadInit
    /\ okDeletes = {}

NextParams ==
    \/ \E i \in Ids : OpenPage("detail", i)
    \/ \E i \in Ids : ParamsIdChange(i)
    \/ \E r \in Pending, status \in Statuses :
          FetchAnalysisResponse(r, status, StoreRecord(r.id))

SpecParams == InitParams /\ [][NextParams]_vars

\* file sizes with two significant base-1024 digits, below 1024^(MaxExp + 1)
SizeHi == {1, 512, 1023}
SizeLo == {0, 128, 512, 1023}

FileSizes ==
    {<<>>} \cup {<<hi>> : hi \in SizeHi}
           \cup {<<hi, lo>> \o Zeros(e - 1) : hi \in SizeHi, lo \in SizeLo, e \in 1..MaxExp}

\* the store answers with one or two analyses of any of these sizes
FormatOk ==
    \E r \in Pending, n \in 1..2 :
        \E sz \in [1..n -> FileSizes] :
            FetchAnalysesResponse(r, Ok, [i \in 1..n |-> Analysis(i, <<>>, sz[i])])

\* or the list fetch fails
FormatFail ==
    \E r \in Pending, status \in Statuses \ {Ok} :
        FetchAnalysesResponse(r, status, <<>>)

NextFormat == FormatOk \/ FormatFail

SpecFormat == InitDashboard /\ [][NextFormat]_vars

\* ------------------------------------------------- what the page displays
NoBlock == Block(<<>>)

\* analysis.extracted_data of the record held by the Analysis Detail page
CurData == IF detail.analysis = <<>> THEN <<>> ELSE detail.analysis[1].extracted_data

\* the extracted-data block inside the third return of AnalysisDetailPage
RenderedBlock == IF DetailShown THEN Block(CurData) ELSE NoBlock

\* the branch of `if (isCommercial)` taken
Kind(m) == IF isCommercial(m) THEN "commercial" ELSE "residential"

\* ------------------------------------------------------------- claims
\* the falsy values a string|number field can take
ClaimFalsy == {Str(""), Num(0)}

ClaimValued(m, k) == \E i \in 1..Len(m) : m[i].key = k /\ m[i].value \notin ClaimFalsy

ClaimPrimary(kind) ==
    IF kind = "commercial" THEN <<"Price", "Sq Ft", "Property Type">>
    ELSE <<"Price", "Sq Ft", "Bedrooms", "Bathrooms">>

ClaimDetails == <<"Address", "MLS#", "Built">>

ClaimFixed(kind) == Range(ClaimPrimary(kind)) \cup Range(ClaimDetails)

ClaimKind(m) ==
    IF ClaimValued(m, "Property Type")
       \/ (ClaimValued(m, "Sq Ft") /\ ~ClaimValued(m, "Bedrooms"))
    THEN "commercial" ELSE "residential"

NoDuplicates(list) == \A i, j \in 1..Len(list) : i # j => list[i] # list[j]

KeysShown(list) == Range(list)
CardKeys(cards) == {cards[i].key : i \in 1..Len(cards)}

GroupsDisjoint(b) ==
    /\ KeysShown(b.primary) \cap KeysShown(b.details) = {}
    /\ KeysShown(b.primary) \cap CardKeys(b.additional) = {}
    /\ KeysShown(b.details) \cap CardKeys(b.additional) = {}
    /\ NoDuplicates(b.primary)
    /\ NoDuplicates(b.details)
    /\ NoDuplicates(b.additional)

AllShown(b) == KeysShown(b.primary) \cup KeysShown(b.details) \cup CardKeys(b.additional)

\* C3 (as stated): on the rendered Analysis Detail page every key of
\* extracted_data is displayed in exactly one of the groups primary, details,
\* additional: no key in two groups, no key dropped.
C3_EveryKeyInOneGroup ==
    DetailShown =>
        LET b == RenderedBlock
        IN /\ GroupsDisjoint(b)
           /\ AllShown(b) = KeysOf(CurData)

\* C3 (amended): no key is displayed in two groups, and the keys displayed are
\* exactly the keys that have a truthy value or that are outside the chosen
\* kind's primary list and the details list; a listed key whose value is ""
\* or 0 is displayed in no group.
C3_ValuedKeysInOneGroup ==
    DetailShown =>
        LET b == RenderedBlock
            m == CurData
            fixed == ClaimFixed(ClaimKind(m))
        IN /\ GroupsDisjoint(b)
           /\ AllShown(b) = {k \in KeysOf(m) : ClaimValued(m, k) \/ k \notin fixed}

\* C3 witness: a rendered mapping with a primary key, an additional key and a
\* listed key whose value is falsy
C3_Witness ==
    /\ DetailShown
    /\ RenderedBlock.primary # <<>>
    /\ RenderedBlock.additional # <<>>
    /\ \E i \in 1..Len(CurData) :
          /\ CurData[i].key \in ClaimFixed(ClaimKind(CurData))
          /\ CurData[i].value \in ClaimFalsy

\* C4 (as stated): the kind is commercial exactly when the mapping contains
\* the key "Property Type", or contains the key "Sq Ft" and not the key
\* "Bedrooms".
C4_KindByKeyPresence ==
    (DetailShown /\ BlockGuard(CurData)) =>
        (Kind(CurData) = "commercial" <=>
            \/ "Property Type" \in KeysOf(CurData)
            \/ ("Sq Ft" \in KeysOf(CurData) /\ "Bedrooms" \notin KeysOf(CurData)))

\* C4 (amended): the kind is commercial exactly when "Property Type" has a
\* truthy value, or "Sq Ft" has a truthy value and "Bedrooms" has none;
\* otherwise residential. A truthy "Property Type" makes the mapping
\* commercial even when "Bedrooms" has a value too.
C4_KindByValue ==
    (DetailShown /\ BlockGuard(CurData)) =>
        LET kind == ClaimKind(CurData)
        IN /\ Kind(CurData) = kind
           /\ displayOrder(CurData) = ClaimPrimary(kind)
           /\ (ClaimValued(CurData, "Property Type") => Kind(CurData) = "commercial")

\* C4 witness: Property Type and Bedrooms both have a value
C4_Witness ==
    /\ DetailShown
    /\ ClaimValued(CurData, "Property Type")
    /\ ClaimValued(CurData, "Bedrooms")
    /\ Kind(CurData) = "commercial"

\* C5: the primary fields shown are exactly the keys of the kind's fixed list
\* that have a truthy value, in the list's order; the details shown are
\* exactly the keys of [Address, MLS#, Built] that have a truthy value, in
\* that order; a key without a value is skipped.
C5_ShownInFixedOrder ==
    DetailShown =>
        LET b == RenderedBlock
            m == CurData
        IN b.rendered =>
            /\ b.primary = SelectSeq(ClaimPrimary(Kind(m)), LAMBDA k : ClaimValued(m, k))
            /\ b.details = SelectSeq(ClaimDetails, LAMBDA k : ClaimValued(m, k))
            /\ b.detailsSection = (b.details # <<>>)

\* C5 witness: Sq Ft inserted before Price, both with a value, and a listed
\* key without one
C5_Witness ==
    /\ DetailShown
    /\ Len(CurData) = 3
    /\ CurData[1].key = "Sq Ft"
    /\ CurData[2].key = "Price"
    /\ CurData[3].key = "Address"
    /\ CurData[3].value \in ClaimFalsy
    /\ RenderedBlock.primary = <<"Price", "Sq Ft">>

\* C6: the additional group is exactly the entries of extracted_data whose
\* key is neither in the kind's primary list nor in the details list,
\* whatever the values of the listed keys, in the mapping's own order.
C6_AdditionalIsComplement ==
    DetailShown =>
        LET b == RenderedBlock
            m == CurData
            fixed == ClaimFixed(Kind(m))
            expected == SelectSeq(m, LAMBDA e : e.key \notin fixed)
        IN b.rendered =>
            /\ additionalEntries(m) = expected
            /\ Len(b.additional) = Len(expected)
            /\ b.additionalSection = (expected # <<>>)
            /\ \A i \in 1..Len(expected) :
                  /\ b.additional[i].key = expected[i].key
                  /\ (expected[i].value = Num(3) => b.additional[i].text = "3")
                  /\ (expected[i].value = Num(0) => b.additional[i].text = "0")
                  /\ (expected[i].value = Str("Office") => b.additional[i].text = "Office")

\* C6 witness: two additional entries, one of them without a value, next to a
\* listed key without a value
C6_Witness ==
    /\ DetailShown
    /\ Len(CurData) = 3
    /\ Len(RenderedBlock.additional) = 2
    /\ RenderedBlock.additional[1].key = "Color"
    /\ CurData[1].key = "Color"
    /\ CurData[1].value \in ClaimFalsy
    /\ \E i \in 2..3 : CurData[i].key = "Price" /\ CurData[i].value \in ClaimFalsy

\* C7: an empty extracted_data renders no grouping block (no primary, details
\* or additional section); a non-empty one rendered on the page always has
\* the block.
C7_BlockIffNonEmpty ==
    LET b == RenderedBlock
    IN /\ (detail.analysis # <<>> /\ Len(CurData) = 0) =>
             /\ ~b.rendered
             /\ b.primary = <<>>
             /\ ~b.detailsSection
             /\ ~b.additionalSection
       /\ (DetailShown /\ Len(CurData) > 0) => b.rendered

\* C7 witness: the page shows a record whose extracted_data is empty
C7_Witness ==
    /\ DetailShown
    /\ detail.analysis # <<>>
    /\ CurData = <<>>

Responses == {"listResponse", "getResponse", "deleteResponse"}

\* C1 (as stated): after the continuation of any authenticated call (list
\* fetch and delete on the Dashboard, single fetch and delete on the Analysis
\* Detail page) has handled a 401 response, both session entries are gone
\* from localStorage and the router shows the login view.
C1_401ClearsSession ==
    (ev.op \in Responses /\ ev.status = Unauthorized) =>
        /\ storage.session_token = Null
        /\ storage.user = Null
        /\ route = "login"

Protected == {"dashboard", "detail"}

\* C2 (as stated): when a protected page (Dashboard, Analysis Detail) is
\* loaded while the session token or the user record is absent from storage,
\* the router shows the login view and the page has issued no request.
C2_GateNeedsTokenAndUser ==
    (ev.op = "load" /\ ev.page \in Protected
       /\ (storage.session_token = Null \/ storage.user = Null)) =>
        /\ route = "login"
        /\ \A r \in Pending : ~r.live

\* C8 (as stated): confirming a delete on the Dashboard issues exactly one
\* DELETE call for that analysis id, and when the call succeeds the displayed
\* list becomes the list displayed before without that id, the other
\* analyses kept in order.
C8_DeleteRemovesExactlyThatId ==
    [][/\ (ev'.op = "confirmDelete" /\ ev'.page = "dashboard") =>
             \E r \in BagToSet(net') :
                 /\ net' = Sent(net, r)
                 /\ r.kind = "delete"
                 /\ r.id = dash.deleteConfirm[1]
       /\ (ev'.op = "deleteResponse" /\ ev'.page = "dashboard" /\ IsOk(ev'.status)
             /\ DashShown /\ DashShown'
             /\ \E r \in Pending : r.live /\ net' = Others(r)) =>
             dash'.analyses = FilterOut(dash.analyses, ev'.id)]_vars

\* C9: on the Dashboard a DELETE call that returns a non-success status or
\* fails at the network level leaves the displayed list unchanged, and an
\* analysis leaves the displayed list only once a DELETE call for its id has
\* returned success.
C9_RemovedOnlyOnSuccess ==
    [][/\ (ev'.op = "deleteResponse" /\ ev'.page = "dashboard" /\ ~IsOk(ev'.status)) =>
             dash'.analyses = dash.analyses
       /\ (DashShown /\ DashShown') =>
             IdsOf(dash.analyses) \ IdsOf(dash'.analyses) \subseteq okDeletes']_vars

\* C9 witness: a failed DELETE was handled with the analysis still listed
C9_Witness ==
    /\ ev.op = "deleteResponse"
    /\ ev.page = "dashboard"
    /\ ev.status \in {NotFound, ServerError, NetworkError}
    /\ route = "dashboard"
    /\ ev.id \in IdsOf(dash.analyses)
    /\ dash.error = "Failed to delete analysis"

\* C10: cancelling a delete (Cancel in the Dashboard modal, declining the
\* confirmation on the Analysis Detail page) issues no DELETE call and
\* changes neither the displayed list nor the displayed record.
C10_CancelIssuesNothing ==
    [][ev'.op \in {"cancelDelete", "declineDelete"} =>
          /\ net' = net
          /\ dash'.analyses = dash.analyses
          /\ detail'.analysis = detail.analysis
          /\ route' = route]_vars

\* C10 witness: the Dashboard modal was cancelled, the analysis is still
\* listed and no call is pending
C10_Witness ==
    /\ ev.op = "cancelDelete"
    /\ route = "dashboard"
    /\ ev.id \in IdsOf(dash.analyses)
    /\ dash.deleteConfirm = <<>>
    /\ net = EmptyBag
    /\ okDeletes = {}

\* handlers of the Analysis Detail page other than a successful delete
DetailNoRedirect ==
    /\ ev'.page = "detail"
    /\ \/ ev'.op \in {"getResponse", "declineDelete", "confirmDelete"}
       \/ ev'.op = "deleteResponse" /\ ~IsOk(ev'.status)

\* number of pending DELETE calls issued by the Analysis Detail page
DetailDeletes(calls) ==
    BagCardinality([r \in {x \in BagToSet(calls) : x.kind = "delete" /\ x.page = "detail"}
                      |-> calls[r]])

\* C11: on the Analysis Detail page a DELETE call is issued only by the step
\* in which the user confirmed, on the record the page shows, and the page
\* goes to the dashboard only in the step that handles a successful response
\* to such a call (and then it does, while a session is held): no other
\* handler of the page mounts the Dashboard.
C11_ConfirmCallRedirect ==
    [][/\ DetailDeletes(net') > DetailDeletes(net) =>
             /\ ev'.op = "confirmDelete"
             /\ ev'.page = "detail"
             /\ DetailShown
             /\ \E r \in BagToSet(net') :
                    /\ net' = Sent(net, r)
                    /\ r.id = detail.id
       /\ DetailNoRedirect =>
             /\ route' \in {route, "login"}
             /\ route' = "dashboard" => dash' = dash
       /\ (ev'.op = "deleteResponse" /\ ev'.page = "detail" /\ IsOk(ev'.status)) =>
             /\ DetailDeletes(net) > 0
             /\ DashboardGate(storage) => route' = "dashboard" /\ dash'.loading]_vars

\* C11 witness: the Dashboard was mounted by a successful DELETE of the
\* Analysis Detail page
C11_Witness ==
    /\ ev.op = "deleteResponse"
    /\ ev.page = "detail"
    /\ ev.status = Ok
    /\ ev.id = 1
    /\ route = "dashboard"
    /\ dash.loading

\* C12: when the Analysis Detail page handles a 404 response to its fetch,
\* the error message becomes "Analysis not found", the route stays and
\* storage is left as it was.
C12_NotFoundStaysOnPage ==
    [][\A r \in Pending :
          (r.kind = "get" /\ r.live /\ net' = Others(r)
             /\ ev'.op = "getResponse" /\ ev'.status = NotFound) =>
              /\ detail'.error = "Analysis not found"
              /\ ~detail'.loading
              /\ route' = route
              /\ storage' = storage]_vars

\* C12 witness: the page shows the not-found message, still on the detail
\* route with the session held
C12_Witness ==
    /\ ev.op = "getResponse"
    /\ ev.status = NotFound
    /\ route = "detail"
    /\ detail.error = "Analysis not found"
    /\ DetailView = "notFound"
    /\ storage = LoggedIn

StoreKinds == {"list", "get", "delete"}

\* C13: every pending call to the Analysis Store carries the session token,
\* and a call to the Analysis Store is issued only while storage holds a
\* session token.
C13_RequestsCarryToken ==
    [][\A r \in BagToSet(net') :
          r.kind \in StoreKinds =>
             /\ r.auth = Token
             /\ CopiesIn(r, net') > CopiesIn(r, net) =>
                   /\ storage.session_token # Null
                   /\ r.auth = storage.session_token]_vars

\* C13 witness: a DELETE confirmed on the Dashboard is pending with the token
C13_Witness ==
    /\ ev.op = "confirmDelete"
    /\ ev.page = "dashboard"
    /\ \E r \in Pending : r.kind = "delete" /\ r.live /\ r.auth = Token

\* C14: storage holds both session entries or neither, and after a logout it
\* holds neither.
C14_SessionPairOrNothing ==
    /\ (storage.session_token = Null) <=> (storage.user = Null)
    /\ ev.op = "logout" => storage = Cleared

\* C14 witness: the Home page logged a held session out
C14_Witness ==
    /\ ev.op = "logout"
    /\ ev.page = "home"
    /\ route = "home"
    /\ home.user = Null
    /\ storage = Cleared

PdfType == "application/pdf"

\* the error message the page named p holds
PageError(p) ==
    CASE p = "dashboard" -> dash.error
      [] p = "detail" -> detail.error
      [] OTHER -> IF upload.error = Null THEN "" ELSE upload.error

AllResponses == Responses \cup {"analyzeResponse"}

\* C15 (as stated): whenever the mounted page handles the end of one of its
\* calls (list fetch, single fetch, delete, analyze-PDF) that failed at the
\* network level or returned a non-success status other than 401, the error
\* message of that page is non-empty afterwards.
C15_EveryFailureSurfaced ==
    [][\A r \in Pending :
          (r.live /\ net' = Others(r) /\ ev'.op \in AllResponses
             /\ ev'.status \notin {Ok, Unauthorized}) =>
              PageError(r.page)' # ""]_vars

\* number of pending analyze-PDF calls, abandoned ones included or not
AnalyzeCalls(liveOnly) ==
    BagCardinality([r \in {x \in Pending : x.kind = "analyze" /\ (liveOnly => x.live)}
                      |-> net[r]])

\* the submit control is disabled while a call of the page is pending and
\* while no file is selected
SubmitGated ==
    route = "upload" =>
        /\ AnalyzeCalls(TRUE) > 0 => SubmitDisabled
        /\ upload.file = <<>> => SubmitDisabled

C17_OnlyPdfSubmitted ==
    /\ (route = "upload" /\ ev.op = "selectFile" /\ upload.input # <<>>
          /\ upload.input[1].type # PdfType) =>
            /\ upload.error = "Please select a PDF file"
            /\ upload.file # upload.input
    /\ upload.file # <<>> => upload.file[1].type = PdfType
    /\ \A r \in Pending :
          (r.kind = "analyze" /\ r.live) => r.body # <<>> /\ r.body[1].type = PdfType

\* C17 witness: a non-PDF selection was rejected after a PDF had been
\* submitted
C17_Witness ==
    /\ route = "upload"
    /\ ev.op = "selectFile"
    /\ upload.input # <<>>
    /\ upload.input[1].type # PdfType
    /\ upload.error = "Please select a PDF file"
    /\ AnalyzeCalls(TRUE) = 1

\* C18: the 401 handler of the list fetch leaves storage cleared and the
\* router at login; run again from the state it left, it leaves storage as
\* it found it and sets no error message.
C18_Handle401Idempotent ==
    [][(ev'.op = "listResponse" /\ ev'.status = Unauthorized) =>
          /\ storage' = Cleared
          /\ route' = "login"
          /\ ev.clears > 0 =>
                /\ storage' = storage
                /\ \A p \in Pages : PageError(p)' = PageError(p)]_vars

\* C18 witness: the 401 handler has run a second time
C18_Witness ==
    /\ ev.op = "listResponse"
    /\ ev.status = Unauthorized
    /\ ev.clears = 2
    /\ storage = Cleared
    /\ route = "login"

\* the mapping of the first example
C19_Mapping == <<Entry("Property Type", Str("Office")), Entry("Sq Ft", Str("10000"))>>

\* C19: for {"Property Type": "Office", "Sq Ft": "10000"} the page takes the
\* commercial branch, shows Sq Ft then Property Type as primary, no details
\* section and no additional fields.
C19_CommercialExample ==
    (DetailShown /\ CurData = C19_Mapping) =>
        LET b == RenderedBlock
        IN /\ Kind(CurData) = "commercial"
           /\ b.rendered
           /\ b.primary = <<"Sq Ft", "Property Type">>
           /\ ~b.detailsSection
           /\ b.details = <<>>
           /\ ~b.additionalSection
           /\ b.additional = <<>>

\* C19 witness: the page shows the record with the first example mapping
C19_Witness ==
    /\ DetailShown
    /\ ev.op = "getResponse"
    /\ CurData = C19_Mapping

\* the mapping of the second example
C20_Mapping ==
    <<Entry("Price", Str("$500,000")), Entry("Sq Ft", Str("1200")),
      Entry("Bedrooms", Str("3")), Entry("Bathrooms", Str("2")),
      Entry("Color", Str("Blue"))>>

\* C20: for {Price, Sq Ft, Bedrooms, Bathrooms, Color}, all valued, the page
\* takes the residential branch, shows Price, Sq Ft, Bedrooms, Bathrooms as
\* primary in that order, and the additional fields are exactly (Color, Blue).
C20_ResidentialExample ==
    (DetailShown /\ CurData = C20_Mapping) =>
        LET b == RenderedBlock
        IN /\ Kind(CurData) = "residential"
           /\ b.primary = <<"Price", "Sq Ft", "Bedrooms", "Bathrooms">>
           /\ b.additionalSection
           /\ b.additional = <<[key |-> "Color", text |-> "Blue"]>>

\* C20 witness: the page shows the record with the second example mapping
C20_Witness ==
    /\ DetailShown
    /\ ev.op = "getResponse"
    /\ CurData = C20_Mapping

\* the first n elements of a sequence, all of it when it is shorter
FirstN(seq, n) == SubSeq(seq, 1, IF Len(seq) < n THEN Len(seq) ELSE n)

\* C21: each Dashboard card shows the first four entries of its
\* extracted_data in insertion order, each key with its value text, and has
\* a more-indicator exactly when the mapping has more than four keys, with
\* N the key count minus four.
C21_PreviewFirstFour ==
    DashShown =>
        /\ Len(Previews) = Len(dash.analyses)
        /\ \A i \in 1..Len(dash.analyses) :
              LET m == dash.analyses[i].extracted_data
                  p == Previews[i]
                  first == FirstN(m, 4)
              IN /\ Len(p.cards) = Len(first)
                 /\ \A j \in 1..Len(first) :
                       /\ p.cards[j].key = first[j].key
                       /\ String(first[j].value) # "" =>
                             p.cards[j].text = String(first[j].value)
                 /\ p.more # <<>> <=> Len(m) > 4
                 /\ Len(m) > 4 => p.more = <<Len(m) - 4>>

\* C21 witness: a card of a five-key mapping with four entries and +1
C21_Witness ==
    /\ DashShown
    /\ Len(dash.analyses) = 1
    /\ Len(dash.analyses[1].extracted_data) = 5
    /\ Len(Previews[1].cards) = 4
    /\ Previews[1].more = <<1>>

\* 1024^e as a byte count
ClaimPower(e) == <<1>> \o Zeros(e)

\* a >= b on byte counts
RECURSIVE ClaimGeq(_, _)
ClaimGeq(a, b) ==
    IF Len(a) # Len(b) THEN Len(a) > Len(b)
    ELSE IF a = <<>> THEN TRUE
    ELSE IF Head(a) # Head(b) THEN Head(a) > Head(b)
    ELSE ClaimGeq(Tail(a), Tail(b))

\* the number a formatted size shows, in hundredths
ClaimHundredths(f) ==
    f.whole * 100
      + (IF Len(f.decimals) >= 1 THEN f.decimals[1] * 10 ELSE 0)
      + (IF Len(f.decimals) >= 2 THEN f.decimals[2] ELSE 0)

\* C22: 0 bytes formats as "0 Bytes" and 1536 bytes as "1.5 KB"; for a
\* positive count the chosen power of 1024 is the largest one not exceeding
\* the count, the number shown is the quotient rounded to two decimals, and
\* it is written without trailing zeros.
C22_FormatFileSize ==
    DashShown =>
        \A n \in 1..Len(dash.analyses) :
            LET bytes == dash.analyses[n].file_size
                f == CardSizes[n]
            IN /\ bytes = <<>> =>
                     f.whole = 0 /\ f.decimals = <<>> /\ f.unit = "Bytes"
               /\ bytes = <<1, 512>> =>
                     f.whole = 1 /\ f.decimals = <<5>> /\ f.unit = "KB"
               /\ bytes # <<>> =>
                     /\ ClaimGeq(bytes, ClaimPower(f.i))
                     /\ ~ClaimGeq(bytes, ClaimPower(f.i + 1))
                     /\ f.i < 4 => f.unit = <<"Bytes", "KB", "MB", "GB">>[f.i + 1]
                     /\ Len(f.decimals) <= 2
                     /\ f.decimals # <<>> => f.decimals[Len(f.decimals)] # 0
                     /\ LET mant == bytes[1] * 1024 + (IF Len(bytes) > 1 THEN bytes[2] ELSE 0)
                            d == 100 * mant - 1024 * ClaimHundredths(f)
                        IN -512 <= d /\ d <= 512

\* C22 witness: a 1536-byte analysis is listed as 1.5 KB
C22_Witness ==
    /\ DashShown
    /\ Len(dash.analyses) = 2
    /\ dash.analyses[2].file_size = <<1, 512>>
    /\ CardSizes[2].unit = "KB"
    /\ dash.analyses[1].file_size = <<1023, 1023, 0>>

\* C29 (as stated): every size the Dashboard formats, the total included,
\* has its unit index inside the four-entry table and ends in one of the
\* four unit names.
C29_UnitInsideTable ==
    DashShown =>
        \A f \in Range(CardSizes) \cup {TotalSize} :
            /\ f.i \in 0..3
            /\ f.unit \in {"Bytes", "KB", "MB", "GB"}

\* C23 (as stated): when two Dashboard deletes have both returned success
\* to the mounted Dashboard, neither of the two ids is in the displayed
\* list, whichever response arrived first.
C23_BothDeletedGone ==
    (DashShown /\ Cardinality(okDeletes) >= 2) =>
        IdsOf(dash.analyses) \cap okDeletes = {}

C25_ModalForEveryId ==
    DashShown =>
        /\ ModalShown <=> dash.deleteConfirm # <<>>
        /\ ev.op = "clickDelete" => ModalShown /\ dash.deleteConfirm = <<ev.id>>

\* the calls of one kind that are pending were all issued by the mounted page
ClaimLiveOnly(kind) ==
    /\ \E r \in Pending : r.kind = kind
    /\ \A r \in Pending : r.kind = kind => r.live

\* the mounted page has no call of this kind pending
ClaimNoneLive(kind) == \A r \in Pending : r.kind = kind => ~r.live

\* C26: once the list fetch, the detail fetch or the analyze call of a page
\* has completed, with success, 401, another status or a network failure,
\* the loading flag of that page is false, and it stays false while the
\* page has no such call pending; on the Upload page the submit control is
\* then enabled for the selected file.
C26_LoadingEndsWithRequest ==
    [][/\ (ev'.op = "listResponse" /\ ClaimLiveOnly("list")) => ~dash'.loading
       /\ (ev'.op = "getResponse" /\ ClaimLiveOnly("get")) => ~detail'.loading
       /\ (ev'.op = "analyzeResponse" /\ ClaimLiveOnly("analyze")) =>
             ~upload'.loading /\ ~SubmitDisabled'
       /\ (route' = "dashboard" /\ ClaimNoneLive("list")') => ~dash'.loading
       /\ (route' = "detail" /\ ClaimNoneLive("get")') => ~detail'.loading
       /\ (route' = "upload" /\ ClaimNoneLive("analyze")') =>
             ~upload'.loading /\ (upload'.file # <<>> => ~SubmitDisabled')]_vars

\* C26 witness: a failed analyze call has completed on the Upload page and
\* the selected file can be submitted again
C26_Witness ==
    /\ route = "upload"
    /\ ev.op = "analyzeResponse"
    /\ ev.status = ServerError
    /\ upload.error = "Analysis failed"
    /\ upload.file # <<>>
    /\ ~upload.loading
    /\ ~SubmitDisabled

\* C27: the Analysis Detail page renders the detail view exactly when
\* loading is false, the error is empty and a record is held; when a DELETE
\* call of the page fails with a non-401 status or at the network level
\* while the record is displayed, the page shows the Analysis Not Found
\* screen with "Failed to delete analysis" and still holds the record.
C27_FailedDeleteHidesRecord ==
    [][/\ (DetailView' = "detail") <=>
             (~detail'.loading /\ detail'.error = "" /\ detail'.analysis # <<>>)
       /\ (/\ ev'.op = "deleteResponse" /\ ev'.page = "detail"
           /\ ev'.status \notin {Ok, Unauthorized}
           /\ DetailShown
           /\ \A r \in Pending : (r.kind = "delete" /\ r.page = "detail") => r.live) =>
             /\ route' = "detail"
             /\ DetailView' = "notFound"
             /\ detail'.error = "Failed to delete analysis"
             /\ detail'.analysis = detail.analysis
             /\ detail'.analysis # <<>>]_vars

\* C27 witness: a DELETE call has failed with status 500 and the not-found
\* screen is shown over a held record
C27_Witness ==
    /\ route = "detail"
    /\ ev.op = "deleteResponse"
    /\ ev.page = "detail"
    /\ ev.status = ServerError
    /\ detail.analysis # <<>>
    /\ detail.error = "Failed to delete analysis"
    /\ DetailView = "notFound"

ClaimDashboardOps ==
    {"listResponse", "clickDelete", "cancelDelete", "confirmDelete", "deleteResponse"}

\* C28: once the mounted Dashboard holds an error message, set by a failed
\* list fetch or a failed delete, no later operation on that Dashboard makes
\* it empty again, a successful delete and cancelling the modal included.
C28_DashboardErrorSticky ==
    [][(/\ route = "dashboard" /\ route' = "dashboard"
        /\ ev'.op \in ClaimDashboardOps /\ ev'.page = "dashboard"
        /\ dash.error # "") =>
            dash'.error # ""]_vars

\* C28 witness: a DELETE call has succeeded and removed its analysis on a
\* Dashboard that still shows the message of an earlier failure
C28_Witness ==
    /\ DashShown
    /\ ev.op = "deleteResponse"
    /\ ev.page = "dashboard"
    /\ IsOk(ev.status)
    /\ ev.id \in okDeletes
    /\ ev.id \notin IdsOf(dash.analyses)
    /\ dash.error = "Failed to delete analysis"

ClaimIsPdf(selected) == selected # <<>> /\ selected[1].type = "application/pdf"

\* C30: on the Upload page a rejected selection (no file, or a file that is
\* not a PDF) sets the error and leaves the selected file as it was, so a
\* PDF selected earlier can still be submitted; an accepted PDF becomes the
\* selected file and clears the error.
C30_RejectedKeepsFile ==
    [][(ev'.op = "selectFile") =>
          IF ClaimIsPdf(upload'.input)
          THEN /\ upload'.file = upload'.input
               /\ upload'.error = Null
          ELSE /\ upload'.error = "Please select a PDF file"
               /\ upload'.file = upload.file
               /\ (upload.file # <<>> /\ ~upload.loading) => ~SubmitDisabled']_vars

\* C30 witness: after a PNG was rejected, the PDF selected before it has
\* been submitted
C30_Witness ==
    /\ route = "upload"
    /\ ev.op = "analyze"
    /\ upload.input # <<>>
    /\ ~ClaimIsPdf(upload.input)
    /\ ClaimIsPdf(upload.file)
    /\ \E r \in Pending : r.live /\ r.kind = "analyze" /\ r.body = upload.file

====
